---- MODULE Spec2Model ----
(***************************************************************************)
(* Event pipeline of logistics-sync-engine: the two ingress adapters, the  *)
(* event inbox (EventInboxRepository.insertEvent), the two pgmq queues,    *)
(* the ingest consumer (IngestConsumer.pollLoop / processMessage) and the  *)
(* outbound worker (OutboundWorker.pollLoop / processMessage).             *)
(*                                                                         *)
(* Database state is the COMMITTED state.  A transaction's writes are kept *)
(* with the process that runs it and reach the tables in its commit step;  *)
(* a rollback discards them.  Time is abstracted: a claimed or delayed     *)
(* queue message becomes visible again at any later moment.                *)
(***************************************************************************)
EXTENDS Integers, Sequences, FiniteSets, TLC

\* ---------------------------------------------------------------- bounds
MaxSubmit == 3        \* ingress requests made in one run
MaxScaledSubmit == 2  \* the same, in a run with two polling loops
MaxLiveSubmit == 2    \* the same, in a run with the outbound worker
MaxOutbound == 3      \* shopify_outbound message ids issued in one run
MaxReplaySubmit == 2  \* the same, in a run of two polling loops over out-of-order events
MaxDispatchSubmit == 1 \* the same, in a run that follows one event through the dispatcher
MaxFieldSubmit == 3   \* ingress requests in a run over the field-carrying payloads
MaxLockSubmit == 2    \* the same, in a run over the first events of two orders
MaxBurst == 3         \* applied events whose outbound messages await the worker when a run starts
MaxConsumerSubmit == 2 \* the same, in the runs of the consumer under failures
MaxKeySubmit == 2      \* requests whose dedupe keys are compared
MaxEnqueueSubmit == 3  \* the same, in the runs that follow the enqueue inside the transaction
MaxFaultBurst == 2     \* the same, when the attempts of the worker fail
MaxClock == 3          \* Date.now() reads 0..MaxClock ticks
MaxForeign == 2       \* malformed messages found on ingest_events when a run starts
MaxBacklog == 257     \* events one SSE subscriber is let fall behind by in one run

\* ------------------------------------------------------ program constants
Epoch == 0            \* new Date(0), lastEventTs of a partial order
IngestQty == 2        \* qty of readWithPoll on ingest_events
OutboundQty == 10     \* qty of readWithPoll on shopify_outbound
BucketCapacity == 2   \* new TokenBucket(2, 2)

\* ------------------------------------------------------------ input sets
Orders == {"o1"}
Loops == {"L1"}                 \* the polling loop of one API process
ScaledLoops == {"L1", "L2"}     \* the polling loops of two API processes
NoId == "none"                  \* no x-shopify-webhook-id header
CreateTs == {1}                 \* event timestamps, in ms relative to the epoch
UpdateTs == {1, 2}
CourierTs == {-1, 1}
Responses == {"2xx", "429", "other", "throw"}
\* What else can come of one processMessage of the outbound worker:
\* MOCK_SHOPIFY_BASE_URL is not set; the POST was answered 2xx and
\* pgmqRepo.delete throws.
Faults == {"nourl", "deletefails"}
RetryAfterHeaders == {{}, {0}, {2}}   \* Retry-After of a 429: absent, "0", "2"
SubscriberIds == {"s1", "s2"}   \* SSE clients
BroadcastEvents == {[orderId |-> o, msg |-> 0, summary |-> "Order Updated"] : o \in Orders}
Null == "null"                  \* SQL NULL of an optional text column

\* The six optional address columns of orders and the payload key each is set from.
AddressColumns == {"addressLine1", "addressLine2", "city", "state", "postalCode", "country"}
PayloadKey(column) ==
  CASE column = "addressLine1" -> "address1"
    [] column = "addressLine2" -> "address2"
    [] column = "city" -> "city"
    [] column = "state" -> "province"
    [] column = "postalCode" -> "zip"
    [] column = "country" -> "country"

\* An address object of a request body: the keys it carries and their values.
\* The object without keys stands for a body without that object.
NoAddress == [k \in {} |-> Null]
AddressObject(keys, v) == [k \in keys |-> v]

\* The requests submitted to POST /webhooks/shopify/orders: a create without a
\* webhook id, and updates that share one webhook id at different timestamps.
ShopifyRequests ==
  {[source |-> "shopify", webhookId |-> NoId, orderId |-> o,
    eventType |-> "SHOPIFY_CREATED", eventTs |-> ts, trackingNumber |-> FALSE,
    shipping_address |-> NoAddress, address |-> NoAddress, shippingFeeCents |-> {}] :
      o \in Orders, ts \in CreateTs}
  \cup
  {[source |-> "shopify", webhookId |-> "w1", orderId |-> o,
    eventType |-> "SHOPIFY_UPDATED", eventTs |-> ts, trackingNumber |-> FALSE,
    shipping_address |-> NoAddress, address |-> NoAddress, shippingFeeCents |-> {}] :
      o \in Orders, ts \in UpdateTs}

\* The requests submitted to POST /events/courier/status_update, with and
\* without a trackingNumber.
CourierRequests ==
  {[source |-> "courier", webhookId |-> NoId, orderId |-> o,
    eventType |-> "COURIER_STATUS_UPDATE", eventTs |-> ts, trackingNumber |-> trk,
    shipping_address |-> NoAddress, address |-> NoAddress, shippingFeeCents |-> {}] :
      o \in Orders, ts \in CourierTs, trk \in BOOLEAN}

Requests == ShopifyRequests \cup CourierRequests

\* Out-of-order events of one order: its create, a later merchant update, and
\* courier updates older than that update (one of them older than the epoch).
ReplayRequests ==
  {r \in Requests :
     \/ r.eventType = "SHOPIFY_CREATED"
     \/ (r.eventType = "SHOPIFY_UPDATED" /\ r.eventTs = 2)
     \/ (r.eventType = "COURIER_STATUS_UPDATE" /\ r.trackingNumber)}

\* The requests of a run that is followed through the dispatcher: a merchant
\* update and a courier update with a trackingNumber, at one timestamp.
DispatchRequests ==
  {r \in Requests : r.eventTs = 1 /\ r.eventType # "SHOPIFY_CREATED"
                       /\ (r.eventType = "COURIER_STATUS_UPDATE" => r.trackingNumber)}

\* Requests whose bodies carry the mutable Order fields: merchant webhooks
\* with the shipping address under shipping_address (the webhook's own key)
\* or under address (the key IngestEventPayload declares), and courier
\* events with a shippingFeeCents.
FieldRequests ==
  {[source |-> "shopify", webhookId |-> NoId, orderId |-> o,
    eventType |-> "SHOPIFY_CREATED", eventTs |-> 1, trackingNumber |-> FALSE,
    shipping_address |-> AddressObject({"city", "zip"}, "X"), address |-> NoAddress,
    shippingFeeCents |-> {}] : o \in Orders}
  \cup
  {[source |-> "shopify", webhookId |-> NoId, orderId |-> o,
    eventType |-> "SHOPIFY_UPDATED", eventTs |-> 2, trackingNumber |-> FALSE,
    shipping_address |-> AddressObject({"city"}, "Y"), address |-> NoAddress,
    shippingFeeCents |-> {}] : o \in Orders}
  \cup
  {[source |-> "shopify", webhookId |-> NoId, orderId |-> o,
    eventType |-> "SHOPIFY_UPDATED", eventTs |-> ts, trackingNumber |-> FALSE,
    shipping_address |-> NoAddress, address |-> AddressObject({"city"}, v),
    shippingFeeCents |-> {}] : o \in Orders, ts \in {1, 3}, v \in {"Z"}}
  \cup
  {[source |-> "courier", webhookId |-> NoId, orderId |-> o,
    eventType |-> "COURIER_STATUS_UPDATE", eventTs |-> ts, trackingNumber |-> TRUE,
    shipping_address |-> NoAddress, address |-> NoAddress,
    shippingFeeCents |-> {fee}] : o \in Orders, ts \in {2}, fee \in {-1, 5}}

\* First events of two orders that have no row yet, at one timestamp: two
\* courier updates of o1 (with and without a trackingNumber) and one of o2.
TwoOrders == {"o1", "o2"}
LockRequests ==
  {r \in
     {[source |-> "courier", webhookId |-> NoId, orderId |-> o,
       eventType |-> "COURIER_STATUS_UPDATE", eventTs |-> 1, trackingNumber |-> trk,
       shipping_address |-> NoAddress, address |-> NoAddress, shippingFeeCents |-> {}] :
         o \in TwoOrders, trk \in BOOLEAN} :
     r.orderId = "o1" \/ r.trackingNumber}

\* Message bodies that insertEvent never builds: a body that is not an
\* object, an object without orderId, an object without dedupeKey.
MalformedBodies ==
  {[scalar |-> "text"],
   [dedupeKey |-> "k", eventType |-> "SHOPIFY_UPDATED", eventTs |-> 1],
   [orderId |-> "o1", eventType |-> "SHOPIFY_UPDATED", eventTs |-> 1]}

VARIABLES
  calls,        \* ingress requests: <<[req, pc]>>, pc is the insertEvent position/result
  inbox,        \* event_inbox rows, in insertion order (index = surrogate id)
  ingestLog,    \* every message ever committed to ingest_events (index = msg_id)
  ingestLive,   \* msg_ids present on ingest_events
  ingestVis,    \* msg_ids of ingest_events that a read would claim now
  orders,       \* orders table: order_id -> row
  shipments,    \* shipments rows, in insertion order
  outLog,       \* every message ever committed to shopify_outbound
  outLive,      \* msg_ids present on shopify_outbound
  outVis,       \* msg_ids of shopify_outbound that a read would claim now
  tasks,        \* processMessage invocations of the ingest consumer
  dtasks,       \* processMessage invocations of the outbound worker
  tokens,       \* whole tokens in the outbound worker's TokenBucket
  published,    \* events the ingest consumer handed to ShipmentsService.broadcast, in order
  subscribers,  \* SSE subscribers of events$: subscriber -> events handed over, not yet consumed
  stopping,     \* the process was sent a shutdown signal
  bucket        \* the TokenBucket in detail: fractions of a token, clock readings, sleeping callers

vars == <<calls, inbox, ingestLog, ingestLive, ingestVis, orders, shipments,
          outLog, outLive, outVis, tasks, dtasks, tokens, published, subscribers,
          stopping, bucket>>

\* ------------------------------------------------------------ pure helpers
\* The bucket counts in 1/Scale of a token, and one tick of the clock is the
\* time in which refillRate adds that much (1000 / (Scale * 2) ms).
Scale == 2

\* new TokenBucket(2, 2): full, lastRefill the time of construction.
NewBucket == [tokens |-> BucketCapacity * Scale, lastRefill |-> 0, sleeping |-> {}]

\* SHA-256 of the canonical string: modelled as injective on its input.
computeStableHash(payload) == payload

computeDedupeKey(parts) == [path |-> "hash", parts |-> parts]

\* The JSON body of a request, as far as the pipeline reads it.
BodyOf(req) ==
  [trackingNumber |-> req.trackingNumber, shipping_address |-> req.shipping_address,
   address |-> req.address, shippingFeeCents |-> req.shippingFeeCents]

\* Dedupe key chosen by the controllers.
DedupeKeyOf(req) ==
  IF req.source = "shopify" /\ req.webhookId # NoId
    THEN [path |-> "id", parts |-> <<req.source, req.webhookId>>]
    ELSE computeDedupeKey(<<req.source, req.orderId, req.eventType, req.eventTs,
                            computeStableHash(BodyOf(req))>>)

\* The entry the controllers hand to insertEvent.
EntryOf(req) ==
  [dedupeKey |-> DedupeKeyOf(req), source |-> req.source, orderId |-> req.orderId,
   eventType |-> req.eventType, eventTs |-> req.eventTs,
   payload |-> BodyOf(req), status |-> "RECEIVED", processedAt |-> Null, applied |-> 0]

\* The ingest_events message insertEvent builds from the entry.
MessageOf(entry) ==
  [orderId |-> entry.orderId, dedupeKey |-> entry.dedupeKey,
   eventType |-> entry.eventType, eventTs |-> entry.eventTs,
   trackingNumber |-> entry.payload.trackingNumber,
   shipping_address |-> entry.payload.shipping_address,
   address |-> entry.payload.address,
   shippingFeeCents |-> entry.payload.shippingFeeCents]

RowsWithKey(k) == {i \in 1..Len(inbox) : inbox[i].dedupeKey = k}

\* findUnique({dedupeKey}): the row's index, 0 when absent.
findByDedupeKey(k) ==
  IF RowsWithKey(k) = {} THEN 0 ELSE CHOOSE i \in RowsWithKey(k) : TRUE

\* The qty smallest ids of a set of visible message ids (FIFO claim).
RECURSIVE FirstN(_, _)
FirstN(S, n) ==
  IF n = 0 \/ S = {} THEN {}
  ELSE LET m == CHOOSE x \in S : \A y \in S : x <= y
       IN {m} \cup FirstN(S \ {m}, n - 1)

Max(a, b) == IF a >= b THEN a ELSE b

\* ------------------------------------------------------------------- Init
Init ==
  /\ calls = <<>>
  /\ inbox = <<>>
  /\ ingestLog = <<>>
  /\ ingestLive = {}
  /\ ingestVis = {}
  /\ orders = <<>>
  /\ shipments = <<>>
  /\ outLog = <<>>
  /\ outLive = {}
  /\ outVis = {}
  /\ tasks = {}
  /\ dtasks = {}
  /\ tokens = BucketCapacity
  /\ published = <<>>
  /\ subscribers = [s \in {} |-> <<>>]
  /\ stopping = FALSE
  /\ bucket = NewBucket

\* ------------------------------------------------- ingress: insertEvent
InFlight(c) == calls[c].pc \in {"created", "sent"}

\* Mutant of UniqueViolation: event_inbox without the unique index.
UniqueViolationNoIndex(k) == FALSE

\* tx.eventInbox.create against the unique index on dedupe_key: P2002 when a
\* committed row carries the key.
UniqueViolation(k) == RowsWithKey(k) # {}

\* Mutant of InsertEventCreate: the message is sent before the create and
\* outside the transaction, so a duplicate enqueues a message all the same.
InsertEventCreateSendsFirst(req) ==
  LET k == DedupeKeyOf(req) IN
  /\ Len(calls) < MaxSubmit
  /\ \A c \in 1..Len(calls) : InFlight(c) => DedupeKeyOf(calls[c].req) # k
  /\ calls' = Append(calls, [req |-> req,
                             pc |-> IF UniqueViolation(k) THEN "duplicate" ELSE "created"])
  /\ ingestLog' = IF UniqueViolation(k) THEN Append(ingestLog, MessageOf(EntryOf(req)))
                                        ELSE ingestLog
  /\ ingestLive' = IF UniqueViolation(k) THEN ingestLive \cup {Len(ingestLog) + 1}
                                         ELSE ingestLive
  /\ UNCHANGED <<inbox, ingestVis, orders, shipments,
                 outLog, outLive, outVis, tasks, dtasks, tokens>>
  /\ UNCHANGED <<published, subscribers, stopping, bucket>>

\* A request reaches tx.eventInbox.create.  An insert of a key that another
\* open transaction has inserted waits for that transaction to end.
InsertEventCreate(req) ==
  LET k == DedupeKeyOf(req) IN
  /\ Len(calls) < MaxSubmit
  /\ \A c \in 1..Len(calls) : InFlight(c) => DedupeKeyOf(calls[c].req) # k
  /\ calls' = Append(calls, [req |-> req,
                             pc |-> IF UniqueViolation(k) THEN "duplicate" ELSE "created"])
  /\ UNCHANGED <<inbox, ingestLog, ingestLive, ingestVis, orders, shipments,
                 outLog, outLive, outVis, tasks, dtasks, tokens>>
  /\ UNCHANGED <<published, subscribers, stopping, bucket>>

\* pgmq.send('ingest_events', message, 0) inside the same transaction.
InsertEventSend(c) ==
  /\ c \in 1..Len(calls)
  /\ calls[c].pc = "created"
  /\ calls' = [calls EXCEPT ![c].pc = "sent"]
  /\ UNCHANGED <<inbox, ingestLog, ingestLive, ingestVis, orders, shipments,
                 outLog, outLive, outVis, tasks, dtasks, tokens>>
  /\ UNCHANGED <<published, subscribers, stopping, bucket>>

\* The transaction commits: row and message appear together.
InsertEventCommit(c) ==
  /\ c \in 1..Len(calls)
  /\ calls[c].pc = "sent"
  /\ calls' = [calls EXCEPT ![c].pc = "inserted"]
  /\ inbox' = Append(inbox, EntryOf(calls[c].req))
  /\ ingestLog' = Append(ingestLog, MessageOf(EntryOf(calls[c].req)))
  /\ ingestLive' = ingestLive \cup {Len(ingestLog) + 1}
  /\ ingestVis' = ingestVis \cup {Len(ingestLog) + 1}
  /\ UNCHANGED <<orders, shipments, outLog, outLive, outVis, tasks, dtasks, tokens>>
  /\ UNCHANGED <<published, subscribers, stopping, bucket>>

\* Mutant of InsertEventFail: the create is not part of a transaction, so the
\* row written before the failure stays.
InsertEventFailKeepsRow(c) ==
  /\ c \in 1..Len(calls)
  /\ InFlight(c)
  /\ calls' = [calls EXCEPT ![c].pc = "threw"]
  /\ inbox' = Append(inbox, EntryOf(calls[c].req))
  /\ UNCHANGED <<ingestLog, ingestLive, ingestVis, orders, shipments,
                 outLog, outLive, outVis, tasks, dtasks, tokens>>
  /\ UNCHANGED <<published, subscribers, stopping, bucket>>

\* The transaction throws after the create or after the send (connection
\* reset, queue RPC failure): Prisma rolls it back and insertEvent rethrows.
InsertEventFail(c) ==
  /\ c \in 1..Len(calls)
  /\ InFlight(c)
  /\ calls' = [calls EXCEPT ![c].pc = "threw"]
  /\ UNCHANGED <<inbox, ingestLog, ingestLive, ingestVis, orders, shipments,
                 outLog, outLive, outVis, tasks, dtasks, tokens>>
  /\ UNCHANGED <<published, subscribers, stopping, bucket>>

\* insertEvent as the other components see it: the whole transaction in one
\* step (its intermediate states are not visible outside the transaction).
insertEvent(req, limit) ==
  /\ Len(calls) < limit
  /\ \A c \in 1..Len(calls) : ~InFlight(c)
  /\ IF UniqueViolation(DedupeKeyOf(req))
       THEN /\ calls' = Append(calls, [req |-> req, pc |-> "duplicate"])
            /\ UNCHANGED <<inbox, ingestLog, ingestLive, ingestVis>>
       ELSE /\ calls' = Append(calls, [req |-> req, pc |-> "inserted"])
            /\ inbox' = Append(inbox, EntryOf(req))
            /\ ingestLog' = Append(ingestLog, MessageOf(EntryOf(req)))
            /\ ingestLive' = ingestLive \cup {Len(ingestLog) + 1}
            /\ ingestVis' = ingestVis \cup {Len(ingestLog) + 1}
  /\ UNCHANGED <<orders, shipments, outLog, outLive, outVis, tasks, dtasks, tokens>>
  /\ UNCHANGED <<published, subscribers, stopping, bucket>>

\* handleOrderWebhook after insertEvent: Accepted, Duplicate ignored, and for
\* anything insertEvent throws the catch returns a body {status: 'Error'}.
ShopifyResponse(result) ==
  CASE result = "inserted" -> [code |-> "2xx", status |-> "Accepted"]
    [] result = "duplicate" -> [code |-> "2xx", status |-> "Duplicate ignored"]
    [] result = "threw" -> [code |-> "2xx", status |-> "Error"]

\* handleCourierEvent after insertEvent: Accepted, Duplicate ignored; what
\* insertEvent throws leaves the handler and becomes a 500.
CourierResponse(result) ==
  CASE result = "inserted" -> [code |-> "2xx", status |-> "Accepted"]
    [] result = "duplicate" -> [code |-> "2xx", status |-> "Duplicate ignored"]
    [] result = "threw" -> [code |-> "5xx", status |-> "Internal server error"]

\* The answer to a finished ingress call.
ResponseOf(call) ==
  IF call.req.source = "shopify" THEN ShopifyResponse(call.pc) ELSE CourierResponse(call.pc)

\* --------------------------------------------- pgmq visibility (both queues)
\* The visibility window of a claimed ingest_events message elapses.
IngestVisibilityExpire(m) ==
  /\ m \in ingestLive \ ingestVis
  /\ ingestVis' = ingestVis \cup {m}
  /\ UNCHANGED <<calls, inbox, ingestLog, ingestLive, orders, shipments,
                 outLog, outLive, outVis, tasks, dtasks, tokens>>
  /\ UNCHANGED <<published, subscribers, stopping, bucket>>

\* The visibility window or the send delay of a shopify_outbound message elapses.
OutboundVisibilityExpire(m) ==
  /\ m \in outLive \ outVis
  /\ outVis' = outVis \cup {m}
  /\ UNCHANGED <<calls, inbox, ingestLog, ingestLive, ingestVis, orders, shipments,
                 outLog, outLive, tasks, dtasks, tokens>>
  /\ UNCHANGED <<published, subscribers, stopping, bucket>>

\* ------------------------------------------------------- ingest consumer
\* pollLoop: readWithPoll(ingest_events, 30, 2, 5, 200) once the previous
\* batch has settled; every claimed message starts a processMessage.
PollRead(l) ==
  /\ \A t \in tasks : t.loop # l
  /\ ingestVis # {}
  /\ LET batch == FirstN(ingestVis, IngestQty) IN
       /\ ingestVis' = ingestVis \ batch
       /\ tasks' = tasks \cup {[loop |-> l, msg |-> m, pc |-> "start"] : m \in batch}
  /\ UNCHANGED <<calls, inbox, ingestLog, ingestLive, orders, shipments,
                 outLog, outLive, outVis, dtasks, tokens>>
  /\ UNCHANGED <<published, subscribers, stopping, bucket>>

\* Mutant of IsValid: the dedupeKey is not looked at.
IsValidIgnoresDedupeKey(payload) ==
  /\ "scalar" \notin DOMAIN payload
  /\ "orderId" \in DOMAIN payload

\* The validation of processMessage before it opens its transaction: the
\* payload is an object and carries an orderId and a dedupeKey.
IsValid(payload) ==
  /\ "scalar" \notin DOMAIN payload
  /\ "orderId" \in DOMAIN payload
  /\ "dedupeKey" \in DOMAIN payload

\* processMessage on a payload that fails the validation: warn, pgmqRepo.delete
\* outside any transaction, return.
Discard(t) ==
  /\ t \in tasks
  /\ t.pc = "start"
  /\ ~IsValid(ingestLog[t.msg])
  /\ ingestLive' = ingestLive \ {t.msg}
  /\ ingestVis' = ingestVis \ {t.msg}
  /\ tasks' = tasks \ {t}
  /\ UNCHANGED <<calls, inbox, ingestLog, orders, shipments,
                 outLog, outLive, outVis, dtasks, tokens>>
  /\ UNCHANGED <<published, subscribers, stopping, bucket>>

\* Mutant of advisoryLockForOrder: the transaction goes on without the lock.
advisoryLockNotTaken(t) ==
  /\ t \in tasks
  /\ t.pc = "start"
  /\ IsValid(ingestLog[t.msg])
  /\ tasks' = (tasks \ {t}) \cup {[t EXCEPT !.pc = "locked"]}
  /\ UNCHANGED <<calls, inbox, ingestLog, ingestLive, ingestVis, orders, shipments,
                 outLog, outLive, outVis, dtasks, tokens>>
  /\ UNCHANGED <<published, subscribers, stopping, bucket>>

\* pg_advisory_xact_lock(hashtext(orderId)): granted when no other open
\* transaction holds the lock of that order.
advisoryLockForOrder(t) ==
  /\ t \in tasks
  /\ t.pc = "start"
  /\ IsValid(ingestLog[t.msg])
  /\ \A u \in tasks :
       u.pc \in {"locked", "sent"} => ingestLog[u.msg].orderId # ingestLog[t.msg].orderId
  /\ tasks' = (tasks \ {t}) \cup {[t EXCEPT !.pc = "locked"]}
  /\ UNCHANGED <<calls, inbox, ingestLog, ingestLive, ingestVis, orders, shipments,
                 outLog, outLive, outVis, dtasks, tokens>>
  /\ UNCHANGED <<published, subscribers, stopping, bucket>>

\* ordersRepo.create of the partial-creation branch.
PartialOrder ==
  [status |-> "PENDING_PARTIAL", totalAmount |-> 0, shippingFeeCents |-> 0,
   address |-> [c \in AddressColumns |-> Null], lastEventTs |-> Epoch]

\* Mutant of IsStale: no out-of-order check.
IsStaleNever(eventTs, order) == FALSE

\* Mutant of IsStale: the comparison is the wrong way round.
IsStaleReversed(eventTs, order) == eventTs > order.lastEventTs

\* Out-of-order check: order.lastEventTs && eventTs < order.lastEventTs.
IsStale(eventTs, order) == eventTs < order.lastEventTs

\* Step 5, the updates object: lastEventTs always; for SHOPIFY_CREATED and
\* SHOPIFY_UPDATED the six address columns from payload.address (a key that
\* is undefined leaves its column as it is); shippingFeeCents when the
\* payload carries one, whatever the event type.
UpdatesOf(payload) ==
  [lastEventTs |-> payload.eventTs,
   address |->
     IF payload.eventType \in {"SHOPIFY_CREATED", "SHOPIFY_UPDATED"}
       THEN [c \in {d \in AddressColumns : PayloadKey(d) \in DOMAIN payload.address} |->
               payload.address[PayloadKey(c)]]
       ELSE [c \in {} |-> Null],
   shippingFeeCents |-> payload.shippingFeeCents]

\* ordersRepo.update(orderId, updates): the row after the update.
update(order, updates) ==
  [order EXCEPT
     !.lastEventTs = updates.lastEventTs,
     !.address = [c \in AddressColumns |->
                    IF c \in DOMAIN updates.address THEN updates.address[c] ELSE @[c]],
     !.shippingFeeCents =
        IF updates.shippingFeeCents = {} THEN @
        ELSE CHOOSE fee \in updates.shippingFeeCents : TRUE]

\* Mutant of upsertByOrderId: a create without the findFirst.
upsertAlwaysCreates(orderId, rows) == Append(rows, [orderOrderId |-> orderId])

\* shipmentsRepo.upsertByOrderId: findFirst by order id, then update or create.
upsertByOrderId(orderId, rows) ==
  IF \E i \in 1..Len(rows) : rows[i].orderOrderId = orderId
    THEN rows
    ELSE Append(rows, [orderOrderId |-> orderId])

\* eventInboxRepo.updateStatus(id, status, new Date()) on the row found by
\* findByDedupeKey (if any).
updateStatus(rows, i, status, applied) ==
  IF i = 0 THEN rows
  ELSE [rows EXCEPT ![i].status = status, ![i].processedAt = "set",
                    ![i].applied = rows[i].applied + applied]

\* Mutant of SummaryOf: the out-of-order branch records a broadcastEvent too.
SummaryOfStaleToo(payload, applied) ==
  IF payload.eventType = "SHOPIFY_CREATED" THEN "Order Created" ELSE "Order Updated"

\* The broadcastEvent a processMessage holds when its transaction has
\* committed: none ("") on the stale branch and when no order was loaded,
\* else the order event, replaced by the shipment event when a courier update
\* carries a trackingNumber.
SummaryOf(payload, applied) ==
  IF ~applied THEN ""
  ELSE IF payload.eventType = "COURIER_STATUS_UPDATE" /\ payload.trackingNumber
         THEN "Shipment Update"
         ELSE IF payload.eventType = "SHOPIFY_CREATED" THEN "Order Created"
                                                       ELSE "Order Updated"

\* The transaction of processMessage, run under the advisory lock, commits:
\* everything it wrote takes effect together.  The stale branch returns from
\* the transaction callback before step 6, so it commits without the
\* pgmq.delete; every other branch deletes the message in the transaction.
\* A processMessage that holds a broadcastEvent goes on to publish it.
ProcessCommit(t) ==
  /\ t \in tasks
  /\ t.pc = "locked"
  /\ LET payload == ingestLog[t.msg]
         orderId == payload.orderId
         i == findByDedupeKey(payload.dedupeKey)
         found == orderId \in DOMAIN orders
         partial == ~found /\ payload.eventType # "SHOPIFY_CREATED"
         order == IF found THEN orders[orderId] ELSE PartialOrder
         applied == (found \/ partial) /\ ~IsStale(payload.eventTs, order)
         updatedOrder == update(order, UpdatesOf(payload))
     IN
       /\ IF found \/ partial
            THEN IF IsStale(payload.eventTs, order)
                   THEN /\ inbox' = updateStatus(inbox, i, "IGNORED_STALE", 0)
                        /\ orders' = [o \in DOMAIN orders \cup {orderId} |->
                                        IF o = orderId THEN order ELSE orders[o]]
                        /\ UNCHANGED <<shipments, outLog, outLive, outVis,
                                       ingestLive, ingestVis>>
                   ELSE /\ orders' = [o \in DOMAIN orders \cup {orderId} |->
                                        IF o = orderId THEN updatedOrder ELSE orders[o]]
                        /\ outLog' = Append(outLog,
                                       [payload |-> [orderId |-> orderId,
                                                     changedFields |-> UpdatesOf(payload),
                                                     snapshot |-> updatedOrder],
                                        cause |-> t.msg, delay |-> 0, lastStatus |-> ""])
                        /\ outLive' = outLive \cup {Len(outLog) + 1}
                        /\ outVis' = outVis \cup {Len(outLog) + 1}
                        /\ shipments' =
                             IF payload.eventType = "COURIER_STATUS_UPDATE" /\ payload.trackingNumber
                               THEN upsertByOrderId(orderId, shipments)
                               ELSE shipments
                        /\ inbox' = updateStatus(inbox, i, "PROCESSED", 1)
                        /\ ingestLive' = ingestLive \ {t.msg}
                        /\ ingestVis' = ingestVis \ {t.msg}
            ELSE /\ ingestLive' = ingestLive \ {t.msg}
                 /\ ingestVis' = ingestVis \ {t.msg}
                 /\ UNCHANGED <<inbox, orders, shipments, outLog, outLive, outVis>>
       /\ tasks' = IF SummaryOf(payload, applied) = ""
                     THEN tasks \ {t}
                     ELSE (tasks \ {t}) \cup {[t EXCEPT !.pc = "committed"]}
  /\ UNCHANGED <<calls, ingestLog, dtasks, tokens, published, subscribers, stopping, bucket>>

\* The transaction of processMessage t, as it finds the order under the lock,
\* takes the apply branch.
Applies(t) ==
  LET payload == ingestLog[t.msg]
      found == payload.orderId \in DOMAIN orders
      partial == ~found /\ payload.eventType # "SHOPIFY_CREATED"
      order == IF found THEN orders[payload.orderId] ELSE PartialOrder
  IN (found \/ partial) /\ ~IsStale(payload.eventTs, order)

\* The apply branch up to pgmqRepo.send(..., tx): the INSERT into the queue
\* table takes the next msg_id at once, but the row (like the updated Order
\* it carries as snapshot) is seen by nobody until the transaction commits.
SendInTransaction(t) ==
  /\ t \in tasks
  /\ t.pc = "locked"
  /\ Applies(t)
  /\ LET payload == ingestLog[t.msg]
         orderId == payload.orderId
         order == IF orderId \in DOMAIN orders THEN orders[orderId] ELSE PartialOrder
         updatedOrder == update(order, UpdatesOf(payload))
     IN outLog' = Append(outLog,
                         [payload |-> [orderId |-> orderId,
                                       changedFields |-> UpdatesOf(payload),
                                       snapshot |-> updatedOrder],
                          cause |-> t.msg, delay |-> 0, lastStatus |-> ""])
  /\ tasks' = (tasks \ {t}) \cup {[t EXCEPT !.pc = "sent"]}
  /\ UNCHANGED <<calls, inbox, ingestLog, ingestLive, ingestVis, orders, shipments,
                 outLive, outVis, dtasks, tokens>>
  /\ UNCHANGED <<published, subscribers, stopping, bucket>>

\* The transaction that has sent commits: the Order, the Shipment, the inbox
\* row, the delete of the ingest message and the outbound message take effect
\* together.
CommitSent(t) ==
  /\ t \in tasks
  /\ t.pc = "sent"
  /\ LET payload == ingestLog[t.msg]
         orderId == payload.orderId
         i == findByDedupeKey(payload.dedupeKey)
         k == CHOOSE k \in 1..Len(outLog) : outLog[k].cause = t.msg
     IN /\ orders' = [o \in DOMAIN orders \cup {orderId} |->
                        IF o = orderId THEN outLog[k].payload.snapshot ELSE orders[o]]
        /\ outLive' = outLive \cup {k}
        /\ outVis' = outVis \cup {k}
        /\ shipments' =
             IF payload.eventType = "COURIER_STATUS_UPDATE" /\ payload.trackingNumber
               THEN upsertByOrderId(orderId, shipments)
               ELSE shipments
        /\ inbox' = updateStatus(inbox, i, "PROCESSED", 1)
        /\ ingestLive' = ingestLive \ {t.msg}
        /\ ingestVis' = ingestVis \ {t.msg}
        /\ tasks' = (tasks \ {t}) \cup {[t EXCEPT !.pc = "committed"]}
  /\ UNCHANGED <<calls, ingestLog, outLog, dtasks, tokens>>
  /\ UNCHANGED <<published, subscribers, stopping, bucket>>

\* The transaction that has sent throws: the rollback takes the outbound row
\* with it, its msg_id is never used again.
RollbackSent(t) ==
  /\ t \in tasks
  /\ t.pc = "sent"
  /\ tasks' = tasks \ {t}
  /\ UNCHANGED <<calls, inbox, ingestLog, ingestLive, ingestVis, orders, shipments,
                 outLog, outLive, outVis, dtasks, tokens>>
  /\ UNCHANGED <<published, subscribers, stopping, bucket>>

\* ShipmentsService.broadcast: events$.next hands the event to every current
\* subscriber at once; it keeps nothing and waits for nobody.
broadcast(event) ==
  subscribers' = [s \in DOMAIN subscribers |-> Append(subscribers[s], event)]

\* GET /stream/shipments: a client subscribes to getStream(), with nothing
\* handed to it yet.
Subscribe(s) ==
  /\ s \notin DOMAIN subscribers
  /\ subscribers' = [x \in DOMAIN subscribers \cup {s} |->
                       IF x = s THEN <<>> ELSE subscribers[x]]
  /\ UNCHANGED <<calls, inbox, ingestLog, ingestLive, ingestVis, orders, shipments,
                 outLog, outLive, outVis, tasks, dtasks, tokens, published, stopping, bucket>>

\* The client disconnects: its subscription, and what it had not consumed, go.
Unsubscribe(s) ==
  /\ s \in DOMAIN subscribers
  /\ subscribers' = [x \in DOMAIN subscribers \ {s} |-> subscribers[x]]
  /\ UNCHANGED <<calls, inbox, ingestLog, ingestLive, ingestVis, orders, shipments,
                 outLog, outLive, outVis, tasks, dtasks, tokens, published, stopping, bucket>>

\* A subscriber's client consumes the oldest event handed to it.
Deliver(s) ==
  /\ s \in DOMAIN subscribers
  /\ subscribers[s] # <<>>
  /\ subscribers' = [subscribers EXCEPT ![s] = Tail(@)]
  /\ UNCHANGED <<calls, inbox, ingestLog, ingestLive, ingestVis, orders, shipments,
                 outLog, outLive, outVis, tasks, dtasks, tokens, published, stopping, bucket>>

\* broadcast called for a change notification, whatever the subscribers have
\* consumed so far.
Publish(event) ==
  /\ \A s \in DOMAIN subscribers : Len(subscribers[s]) < MaxBacklog
  /\ broadcast(event)
  /\ UNCHANGED <<calls, inbox, ingestLog, ingestLive, ingestVis, orders, shipments,
                 outLog, outLive, outVis, tasks, dtasks, tokens, published, stopping, bucket>>

\* After the transaction has resolved, processMessage publishes its
\* broadcastEvent and returns.
Broadcast(t) ==
  /\ t \in tasks
  /\ t.pc = "committed"
  /\ LET event == [orderId |-> ingestLog[t.msg].orderId, msg |-> t.msg,
                   summary |-> SummaryOf(ingestLog[t.msg], TRUE)]
     IN /\ published' = Append(published, event)
        /\ broadcast(event)
  /\ tasks' = tasks \ {t}
  /\ UNCHANGED <<calls, inbox, ingestLog, ingestLive, ingestVis, orders, shipments,
                 outLog, outLive, outVis, dtasks, tokens, stopping, bucket>>

\* Mutant of ProcessAbort: ordersRepo.create of the partial-creation branch
\* runs outside the transaction, so the partial Order survives the rollback.
ProcessAbortKeepsOrder(t) ==
  /\ t \in tasks
  /\ t.pc \in {"start", "locked"}
  /\ tasks' = tasks \ {t}
  /\ orders' = [o \in DOMAIN orders \cup {ingestLog[t.msg].orderId} |->
                  IF o \in DOMAIN orders THEN orders[o] ELSE PartialOrder]
  /\ UNCHANGED <<calls, inbox, ingestLog, ingestLive, ingestVis, shipments,
                 outLog, outLive, outVis, dtasks, tokens>>
  /\ UNCHANGED <<published, subscribers, stopping, bucket>>

\* Mutant of ProcessAbort: the error is not caught per message, it ends the
\* whole batch of the loop.
ProcessAbortRejectsBatch(t) ==
  /\ t \in tasks
  /\ t.pc \in {"start", "locked"}
  /\ tasks' = {u \in tasks : u.loop # t.loop}
  /\ UNCHANGED <<calls, inbox, ingestLog, ingestLive, ingestVis, orders, shipments,
                 outLog, outLive, outVis, dtasks, tokens>>
  /\ UNCHANGED <<published, subscribers, stopping, bucket>>

\* The transaction throws (timeout, connection error) before or after the
\* lock: everything is rolled back, the catch logs, the message stays claimed.
ProcessAbort(t) ==
  /\ t \in tasks
  /\ t.pc \in {"start", "locked"}
  /\ tasks' = tasks \ {t}
  /\ UNCHANGED <<calls, inbox, ingestLog, ingestLive, ingestVis, orders, shipments,
                 outLog, outLive, outVis, dtasks, tokens>>
  /\ UNCHANGED <<published, subscribers, stopping, bucket>>

\* -------------------------------------------------------- outbound worker
\* Mutant of OutboundRead: the batch is popped (read and deleted) instead of
\* claimed for a visibility window.
OutboundReadPops ==
  /\ dtasks = {}
  /\ outVis # {}
  /\ LET batch == FirstN(outVis, OutboundQty) IN
       /\ outVis' = outVis \ batch
       /\ outLive' = outLive \ batch
       /\ dtasks' = batch
  /\ UNCHANGED <<calls, inbox, ingestLog, ingestLive, ingestVis, orders, shipments,
                 outLog, tasks, tokens>>
  /\ UNCHANGED <<published, subscribers, stopping, bucket>>

\* pollLoop: readWithPoll(shopify_outbound, 30, 10, 10, 200).
OutboundRead ==
  /\ dtasks = {}
  /\ outVis # {}
  /\ LET batch == FirstN(outVis, OutboundQty) IN
       /\ outVis' = outVis \ batch
       /\ dtasks' = batch
  /\ UNCHANGED <<calls, inbox, ingestLog, ingestLive, ingestVis, orders, shipments,
                 outLog, outLive, tasks, tokens>>
  /\ UNCHANGED <<published, subscribers, stopping, bucket>>

\* TokenBucket.refill as time passes: one more token, up to the capacity.
RefillTick ==
  /\ tokens < BucketCapacity
  /\ tokens' = tokens + 1
  /\ UNCHANGED <<calls, inbox, ingestLog, ingestLive, ingestVis, orders, shipments,
                 outLog, outLive, outVis, tasks, dtasks>>
  /\ UNCHANGED <<published, subscribers, stopping, bucket>>

\* Mutant of removeToken: a caller that finds no token goes on without one.
removeTokenNoWait ==
  tokens' = IF tokens >= 1 THEN tokens - 1 ELSE tokens

\* TokenBucket.removeToken: returns, with one token taken, once the bucket
\* holds a whole token; until then the caller sleeps and tries again.
removeToken ==
  /\ tokens >= 1
  /\ tokens' = tokens - 1

\* delay of the re-enqueue on a 429: Retry-After parsed as seconds, 1 when
\* the header is absent.
RetryDelay(retryAfter) ==
  IF retryAfter = {} THEN 1 ELSE CHOOSE d \in retryAfter : TRUE

\* Mutant of Requeue: the claimed message is deleted, the send is forgotten.
RequeueDeleteOnly(log, live, vis, m, delay) ==
  [log |-> log, live |-> live \ {m}, vis |-> vis \ {m}]

\* The transaction of the 429 branch: pgmqRepo.send(queue, payload, delay, tx)
\* and pgmqRepo.delete(queue, msg_id, tx) take effect together.  The queue
\* after it: the copy is present, and claimable at once only for delay 0.
Requeue(log, live, vis, m, delay) ==
  LET copy == [payload |-> log[m].payload, cause |-> log[m].cause,
               delay |-> delay, lastStatus |-> ""]
      id == Len(log) + 1
  IN [log |-> Append(log, copy),
      live |-> (live \ {m}) \cup {id},
      vis |-> IF delay = 0 THEN (vis \ {m}) \cup {id} ELSE vis \ {m}]

\* Mutant of OutboundProcess: a message whose attempt failed is deleted.
OutboundProcessDropsFailed(m, resp, retryAfter) ==
  /\ m \in dtasks
  /\ removeToken
  /\ dtasks' = dtasks \ {m}
  /\ LET attempted == [outLog EXCEPT ![m].lastStatus = resp] IN
     CASE resp = "429" ->
            /\ Len(outLog) < MaxOutbound
            /\ LET q == Requeue(attempted, outLive, outVis, m, RetryDelay(retryAfter)) IN
                 /\ outLog' = q.log
                 /\ outLive' = q.live
                 /\ outVis' = q.vis
       [] OTHER ->
            /\ outLive' = outLive \ {m}
            /\ outVis' = outVis \ {m}
            /\ outLog' = attempted
  /\ UNCHANGED <<calls, inbox, ingestLog, ingestLive, ingestVis, orders, shipments, tasks>>
  /\ UNCHANGED <<published, subscribers, stopping, bucket>>

\* processMessage of the outbound worker: bucket.removeToken() returns once a
\* token is there, then the upstream POST is made and its outcome handled.
\*   2xx: pgmqRepo.delete;  429: the re-enqueue transaction;  any other
\*   status, a throw, no base URL, or a delete that throws: the message is
\*   left claimed.
\* lastStatus records the outcome of the latest attempt on the message.
OutboundProcess(m, resp, retryAfter) ==
  /\ m \in dtasks
  /\ removeToken
  /\ dtasks' = dtasks \ {m}
  /\ LET attempted == [outLog EXCEPT ![m].lastStatus = resp] IN
     CASE resp = "2xx" ->
            /\ outLive' = outLive \ {m}
            /\ outVis' = outVis \ {m}
            /\ outLog' = attempted
       [] resp = "429" ->
            /\ Len(outLog) < MaxOutbound
            /\ LET q == Requeue(attempted, outLive, outVis, m, RetryDelay(retryAfter)) IN
                 /\ outLog' = q.log
                 /\ outLive' = q.live
                 /\ outVis' = q.vis
       [] OTHER ->
            /\ outLog' = attempted
            /\ UNCHANGED <<outLive, outVis>>
  /\ UNCHANGED <<calls, inbox, ingestLog, ingestLive, ingestVis, orders, shipments, tasks>>
  /\ UNCHANGED <<published, subscribers, stopping, bucket>>

\* ------------------------------------------- the outbound worker on a backlog
\* A burst of n merchant updates of one order, with timestamps 1..n and no
\* webhook id.
BurstRequest(k) ==
  [source |-> "shopify", webhookId |-> NoId, orderId |-> "o1",
   eventType |-> "SHOPIFY_UPDATED", eventTs |-> k, trackingNumber |-> FALSE,
   shipping_address |-> NoAddress, address |-> NoAddress, shippingFeeCents |-> {}]

\* The Order after the first k events of the burst were applied in order.
RECURSIVE BurstOrder(_)
BurstOrder(k) ==
  IF k = 0 THEN PartialOrder
  ELSE update(BurstOrder(k - 1), UpdatesOf(MessageOf(EntryOf(BurstRequest(k)))))

\* The state in which the ingest consumer has accepted, applied and published
\* a burst of n events while the outbound worker has not polled yet: n
\* messages wait on shopify_outbound and the bucket is full.
Backlog(n) ==
  /\ calls = [k \in 1..n |-> [req |-> BurstRequest(k), pc |-> "inserted"]]
  /\ inbox = [k \in 1..n |->
                [EntryOf(BurstRequest(k)) EXCEPT !.status = "PROCESSED",
                                                 !.processedAt = "set", !.applied = 1]]
  /\ ingestLog = [k \in 1..n |-> MessageOf(EntryOf(BurstRequest(k)))]
  /\ ingestLive = {}
  /\ ingestVis = {}
  /\ orders = [o \in {"o1"} |-> BurstOrder(n)]
  /\ shipments = <<>>
  /\ outLog = [k \in 1..n |->
                 [payload |-> [orderId |-> "o1",
                               changedFields |-> UpdatesOf(MessageOf(EntryOf(BurstRequest(k)))),
                               snapshot |-> BurstOrder(k)],
                  cause |-> k, delay |-> 0, lastStatus |-> ""]]
  /\ outLive = 1..n
  /\ outVis = 1..n
  /\ tasks = {}
  /\ dtasks = {}
  /\ tokens = BucketCapacity
  /\ published = [k \in 1..n |-> [orderId |-> "o1", msg |-> k, summary |-> "Order Updated"]]
  /\ subscribers = [s \in {} |-> <<>>]
  /\ stopping = FALSE
  /\ bucket = NewBucket

\* The outbound worker starts on the backlog of a burst.
InitWorker == \E n \in 1..MaxBurst : Backlog(n)

\* The same, for the runs in which attempts fail.
InitFaults == \E n \in 1..MaxFaultBurst : Backlog(n)

\* ------------------------------------- the consumer on foreign queue content
\* The state in which ingest_events holds messages that were not sent by
\* insertEvent (written to the queue table by something else) when the
\* consumer starts.
InitForeign ==
  \E n \in 1..MaxForeign :
    /\ ingestLog \in [1..n -> MalformedBodies]
    /\ ingestLive = 1..n
    /\ ingestVis = 1..n
    /\ calls = <<>>
    /\ inbox = <<>>
    /\ orders = <<>>
    /\ shipments = <<>>
    /\ outLog = <<>>
    /\ outLive = {}
    /\ outVis = {}
    /\ tasks = {}
    /\ dtasks = {}
    /\ tokens = BucketCapacity
    /\ published = <<>>
    /\ subscribers = [s \in {} |-> <<>>]
    /\ stopping = FALSE
    /\ bucket = NewBucket

\* ------------------------------------------------------- specifications
\* Concurrent insertEvent transactions of the two ingress endpoints.
NextIngress ==
  \/ \E req \in Requests : InsertEventCreate(req)
  \/ \E c \in 1..MaxSubmit : InsertEventSend(c)
  \/ \E c \in 1..MaxSubmit : InsertEventCommit(c)
  \/ \E c \in 1..MaxSubmit : InsertEventFail(c)

SpecIngress == Init /\ [][NextIngress]_vars

\* Ingress and the ingest consumer.
Next ==
  \/ \E req \in Requests : insertEvent(req, MaxSubmit)
  \/ \E m \in ingestLive : IngestVisibilityExpire(m)
  \/ \E l \in Loops : PollRead(l)
  \/ \E t \in tasks : advisoryLockForOrder(t)
  \/ \E t \in tasks : ProcessCommit(t)
  \/ \E t \in tasks : ProcessAbort(t)
  \/ \E t \in tasks : Broadcast(t)

Spec == Init /\ [][Next]_vars

\* Ingress and the ingest consumers of two API processes on one database.
NextScaled ==
  \/ \E req \in Requests : insertEvent(req, MaxScaledSubmit)
  \/ \E m \in ingestLive : IngestVisibilityExpire(m)
  \/ \E l \in ScaledLoops : PollRead(l)
  \/ \E t \in tasks : advisoryLockForOrder(t)
  \/ \E t \in tasks : ProcessCommit(t)
  \/ \E t \in tasks : ProcessAbort(t)
  \/ \E t \in tasks : Broadcast(t)

SpecScaled == Init /\ [][NextScaled]_vars

\* Out-of-order events consumed by the polling loops of two API processes.
NextReplay ==
  \/ \E req \in ReplayRequests : insertEvent(req, MaxReplaySubmit)
  \/ \E m \in ingestLive : IngestVisibilityExpire(m)
  \/ \E l \in ScaledLoops : PollRead(l)
  \/ \E t \in tasks : advisoryLockForOrder(t)
  \/ \E t \in tasks : ProcessCommit(t)
  \/ \E t \in tasks : ProcessAbort(t)
  \/ \E t \in tasks : Broadcast(t)

SpecReplay == Init /\ [][NextReplay]_vars

\* The ingest consumer of one API process on a few events of one order.
NextConsumer ==
  \/ \E req \in ReplayRequests : insertEvent(req, MaxConsumerSubmit)
  \/ \E m \in ingestLive : IngestVisibilityExpire(m)
  \/ \E l \in Loops : PollRead(l)
  \/ \E t \in tasks : advisoryLockForOrder(t)
  \/ \E t \in tasks : ProcessCommit(t)
  \/ \E t \in tasks : ProcessAbort(t)
  \/ \E t \in tasks : Broadcast(t)

\* The polling loop keeps running: pollLoop is a while (true) whose body
\* cannot throw past its catch, readWithPoll returns what is visible, and a
\* processMessage always settles (its transaction commits, throws, or is
\* rolled back by its timeout).
FairnessConsumer ==
  /\ \A l \in Loops : WF_vars(PollRead(l))
  /\ \A l \in Loops, m \in 1..MaxConsumerSubmit :
       WF_vars(\E t \in tasks :
                 /\ t.loop = l
                 /\ t.msg = m
                 /\ \/ advisoryLockForOrder(t)
                    \/ ProcessCommit(t)
                    \/ ProcessAbort(t)
                    \/ Broadcast(t))

SpecConsumer == Init /\ [][NextConsumer]_vars /\ FairnessConsumer

\* First events of two orders consumed by the polling loops of two API processes.
NextLocks ==
  \/ \E req \in LockRequests : insertEvent(req, MaxLockSubmit)
  \/ \E m \in ingestLive : IngestVisibilityExpire(m)
  \/ \E l \in ScaledLoops : PollRead(l)
  \/ \E t \in tasks : advisoryLockForOrder(t)
  \/ \E t \in tasks : ProcessCommit(t)
  \/ \E t \in tasks : ProcessAbort(t)
  \/ \E t \in tasks : Broadcast(t)

SpecLocks == Init /\ [][NextLocks]_vars

\* The same consumers, with the enqueue inside the transaction followed step
\* by step; each message is delivered once.
NextEnqueue ==
  \/ \E req \in LockRequests : insertEvent(req, MaxEnqueueSubmit)
  \/ \E l \in ScaledLoops : PollRead(l)
  \/ \E t \in tasks : advisoryLockForOrder(t)
  \/ \E t \in tasks : SendInTransaction(t)
  \/ \E t \in tasks : CommitSent(t)
  \/ \E t \in tasks : RollbackSent(t)
  \/ \E t \in tasks : ProcessAbort(t)
  \/ \E t \in tasks : Broadcast(t)

SpecEnqueue == Init /\ [][NextEnqueue]_vars

\* Ingress and the ingest consumer on a queue that starts with malformed messages.
NextForeign ==
  \/ \E req \in DispatchRequests : insertEvent(req, MaxDispatchSubmit)
  \/ \E m \in ingestLive : IngestVisibilityExpire(m)
  \/ \E l \in Loops : PollRead(l)
  \/ \E t \in tasks : Discard(t)
  \/ \E t \in tasks : advisoryLockForOrder(t)
  \/ \E t \in tasks : ProcessCommit(t)
  \/ \E t \in tasks : ProcessAbort(t)
  \/ \E t \in tasks : Broadcast(t)

SpecForeign == InitForeign /\ [][NextForeign]_vars

\* The broadcaster and its SSE subscribers.
NextBroadcaster ==
  \/ \E s \in SubscriberIds : Subscribe(s)
  \/ \E s \in SubscriberIds : Unsubscribe(s)
  \/ \E s \in SubscriberIds : Deliver(s)
  \/ \E event \in BroadcastEvents : Publish(event)

SpecBroadcaster == Init /\ [][NextBroadcaster]_vars

\* Ingress and the ingest consumer, over the payloads that carry Order fields.
NextFields ==
  \/ \E req \in FieldRequests : insertEvent(req, MaxFieldSubmit)
  \/ \E m \in ingestLive : IngestVisibilityExpire(m)
  \/ \E l \in Loops : PollRead(l)
  \/ \E t \in tasks : advisoryLockForOrder(t)
  \/ \E t \in tasks : ProcessCommit(t)
  \/ \E t \in tasks : ProcessAbort(t)
  \/ \E t \in tasks : Broadcast(t)

SpecFields == Init /\ [][NextFields]_vars

\* Ingress, the ingest consumer and the outbound worker.
NextPipeline ==
  \/ \E req \in Requests : insertEvent(req, MaxLiveSubmit)
  \/ \E m \in ingestLive : IngestVisibilityExpire(m)
  \/ \E m \in outLive : OutboundVisibilityExpire(m)
  \/ \E l \in Loops : PollRead(l)
  \/ \E t \in tasks : advisoryLockForOrder(t)
  \/ \E t \in tasks : ProcessCommit(t)
  \/ \E t \in tasks : ProcessAbort(t)
  \/ \E t \in tasks : Broadcast(t)
  \/ OutboundRead
  \/ \E m \in dtasks, resp \in Responses, retryAfter \in RetryAfterHeaders :
       OutboundProcess(m, resp, retryAfter)
  \/ RefillTick

\* The same pipeline, followed for the events of a short run.
NextDispatch ==
  \/ \E req \in DispatchRequests : insertEvent(req, MaxDispatchSubmit)
  \/ \E m \in ingestLive : IngestVisibilityExpire(m)
  \/ \E m \in outLive : OutboundVisibilityExpire(m)
  \/ \E l \in Loops : PollRead(l)
  \/ \E t \in tasks : advisoryLockForOrder(t)
  \/ \E t \in tasks : ProcessCommit(t)
  \/ \E t \in tasks : ProcessAbort(t)
  \/ \E t \in tasks : Broadcast(t)
  \/ OutboundRead
  \/ \E m \in dtasks, resp \in Responses, retryAfter \in RetryAfterHeaders :
       OutboundProcess(m, resp, retryAfter)
  \/ RefillTick

SpecDispatch == Init /\ [][NextDispatch]_vars

\* ------------------------------------------- the controllers' dedupe key
\* A parsed JSON body is an object whose members come in the order of the
\* request text: a sequence of members [k, v, o], with v the value of a scalar
\* member ("" for an object) and o the members of a nested object.
Member(k, v) == [k |-> k, v |-> v, o |-> <<>>]
Nested(k, o) == [k |-> k, v |-> "", o |-> o]

\* The member names of the bodies below, in the order Array.prototype.sort
\* gives them.
KeyOrder == <<"city", "created_at", "eventTs", "eventType", "id", "orderId",
              "shipping_address", "trackingNumber", "updated_at", "zip">>

AddressCZ == <<Member("city", "c"), Member("zip", "z")>>
AddressZC == <<Member("zip", "z"), Member("city", "c")>>

\* Merchant order payloads: with updated_at, with created_at, with neither;
\* the same JSON in two member orders.
ShopifyBodies ==
  { <<Member("id", "o1"), Member("updated_at", "t1"), Nested("shipping_address", AddressCZ)>>,
    <<Nested("shipping_address", AddressZC), Member("updated_at", "t1"), Member("id", "o1")>>,
    <<Member("id", "o1"), Member("created_at", "t1"), Nested("shipping_address", AddressCZ)>>,
    <<Member("id", "o1"), Member("updated_at", "t2"), Nested("shipping_address", AddressCZ)>>,
    <<Member("id", "o1"), Nested("shipping_address", AddressCZ)>>,
    <<Nested("shipping_address", AddressZC), Member("id", "o1")>> }

\* Courier payloads, the same JSON in two member orders, and a different one.
CourierBodies ==
  { <<Member("orderId", "o1"), Member("eventType", "COURIER_STATUS_UPDATE"),
      Member("eventTs", "t1"), Member("trackingNumber", "T1")>>,
    <<Member("trackingNumber", "T1"), Member("eventTs", "t1"),
      Member("eventType", "COURIER_STATUS_UPDATE"), Member("orderId", "o1")>>,
    <<Member("orderId", "o1"), Member("eventType", "COURIER_STATUS_UPDATE"),
      Member("eventTs", "t2"), Member("trackingNumber", "T1")>> }

WebhookIds == {NoId, "w1"}                          \* x-shopify-webhook-id, or none
Topics == {"SHOPIFY_CREATED", "SHOPIFY_UPDATED"}    \* x-shopify-topic
Clock == {"n1", "n2"}                               \* new Date().toISOString()

\* payload[k], "" (falsy) when the payload has no such member.
Get(obj, k) ==
  IF \E i \in 1..Len(obj) : obj[i].k = k
    THEN obj[CHOOSE i \in 1..Len(obj) : obj[i].k = k].v
    ELSE ""

\* The members of an object, sorted by key.
SortKeys(obj) ==
  LET ks == SelectSeq(KeyOrder, LAMBDA k : \E i \in 1..Len(obj) : obj[i].k = k)
  IN [j \in 1..Len(ks) |-> obj[CHOOSE i \in 1..Len(obj) : obj[i].k = ks[j]]]

\* Mutant of stringify: JSON.stringify, the members stay in the order given.
stringifyKeepsOrder(obj) == obj

\* fast-json-stable-stringify: the JSON text with the keys of every object
\* sorted, at every depth.
stringify(obj) ==
  LET top == SortKeys(obj)
  IN [j \in 1..Len(top) |-> [top[j] EXCEPT !.o = SortKeys(@)]]

\* handleOrderWebhook, steps 1 and 2: the dedupe key of a merchant webhook.
ShopifyKey(body, webhookId, topic, now) ==
  LET orderId == Get(body, "id")
      eventTs == IF Get(body, "updated_at") # "" THEN Get(body, "updated_at")
                 ELSE IF Get(body, "created_at") # "" THEN Get(body, "created_at")
                 ELSE now
  IN IF webhookId # NoId
       THEN [path |-> "id", parts |-> <<"shopify", webhookId>>]
       ELSE computeDedupeKey(<<"shopify", orderId, topic, eventTs,
                               computeStableHash(stringify(body))>>)

\* handleCourierEvent: the dedupe key of a courier event.
CourierKey(body) ==
  computeDedupeKey(<<"courier", Get(body, "orderId"), Get(body, "eventType"),
                     Get(body, "eventTs"), computeStableHash(stringify(body))>>)

\* insertEvent as the controller sees it: the row is inserted unless a row
\* with the key exists, and the response says which.
Answer(source, body, webhookId, topic, key) ==
  /\ Len(calls) < MaxKeySubmit
  /\ LET seen == \E i \in 1..Len(inbox) : inbox[i].dedupeKey = key
     IN /\ inbox' = IF seen THEN inbox ELSE Append(inbox, [dedupeKey |-> key])
        /\ calls' = Append(calls, [source |-> source, body |-> body,
                                   webhookId |-> webhookId, topic |-> topic,
                                   dedupeKey |-> key,
                                   response |-> IF seen THEN "Duplicate ignored"
                                                        ELSE "Accepted"])
  /\ UNCHANGED <<ingestLog, ingestLive, ingestVis, orders, shipments,
                 outLog, outLive, outVis, tasks, dtasks, tokens>>
  /\ UNCHANGED <<published, subscribers, stopping, bucket>>

\* POST /webhooks/shopify/orders.
handleOrderWebhook(body, webhookId, topic, now) ==
  Answer("shopify", body, webhookId, topic, ShopifyKey(body, webhookId, topic, now))

\* POST /events/courier/status_update.
handleCourierEvent(body) ==
  Answer("courier", body, NoId, Get(body, "eventType"), CourierKey(body))

\* Requests to the two endpoints, one after the other.
NextKeys ==
  \/ \E body \in ShopifyBodies, webhookId \in WebhookIds, topic \in Topics, now \in Clock :
       handleOrderWebhook(body, webhookId, topic, now)
  \/ \E body \in CourierBodies : handleCourierEvent(body)

SpecKeys == Init /\ [][NextKeys]_vars

\* ------------------------------------------------ the TokenBucket in detail
\* Concurrent callers of removeToken (the processMessage calls of a batch).
Callers == {"a", "b", "c"}

\* TokenBucket.refill with Date.now() = now.
refill(b, now) ==
  LET sum == b.tokens + (now - b.lastRefill)
  IN [b EXCEPT !.tokens = IF sum < BucketCapacity * Scale THEN sum
                                                         ELSE BucketCapacity * Scale,
               !.lastRefill = now]

\* One turn of the loop of removeToken, made by caller c when it calls or
\* when its sleep is over: refill, then take a whole token and return, or
\* sleep.  Nothing is awaited between the refill and the decrement.
removeTokenTurn(c, now) ==
  /\ LET b == refill(bucket, now)
     IN bucket' = IF b.tokens >= Scale
                    THEN [b EXCEPT !.tokens = @ - Scale, !.sleeping = @ \ {c}]
                    ELSE [b EXCEPT !.sleeping = @ \cup {c}]
  /\ UNCHANGED <<calls, inbox, ingestLog, ingestLive, ingestVis, orders, shipments,
                 outLog, outLive, outVis, tasks, dtasks, tokens, published, subscribers,
                 stopping>>

\* Callers of the bucket, with Date.now() reading the wall clock.
NextBucket ==
  \E c \in Callers, now \in 0..MaxClock : removeTokenTurn(c, now)

SpecBucket == Init /\ [][NextBucket]_vars

\* The process is sent a shutdown signal.  IngestConsumer and OutboundWorker
\* implement OnModuleInit only: no hook, flag or handler of theirs sees the
\* signal, and their loops are while (true).
Shutdown ==
  /\ ~stopping
  /\ stopping' = TRUE
  /\ UNCHANGED <<calls, inbox, ingestLog, ingestLive, ingestVis, orders, shipments,
                 outLog, outLive, outVis, tasks, dtasks, tokens, published, subscribers,
                 bucket>>

\* The pipeline of a short run, with a shutdown signal at some point.
NextShutdown ==
  \/ \E req \in DispatchRequests : insertEvent(req, MaxDispatchSubmit)
  \/ \E m \in ingestLive : IngestVisibilityExpire(m)
  \/ \E m \in outLive : OutboundVisibilityExpire(m)
  \/ \E l \in Loops : PollRead(l)
  \/ \E t \in tasks : advisoryLockForOrder(t)
  \/ \E t \in tasks : ProcessCommit(t)
  \/ \E t \in tasks : ProcessAbort(t)
  \/ \E t \in tasks : Broadcast(t)
  \/ OutboundRead
  \/ \E m \in dtasks, resp \in Responses, retryAfter \in RetryAfterHeaders :
       OutboundProcess(m, resp, retryAfter)
  \/ RefillTick
  \/ Shutdown

SpecShutdown == Init /\ [][NextShutdown]_vars

\* The outbound worker alone, on the backlog of a burst.
NextWorker ==
  \/ \E m \in outLive : OutboundVisibilityExpire(m)
  \/ OutboundRead
  \/ \E m \in dtasks, resp \in Responses, retryAfter \in RetryAfterHeaders :
       OutboundProcess(m, resp, retryAfter)
  \/ RefillTick

\* Time passes, and a processMessage that has its token goes on to its POST.
FairnessWorker ==
  /\ WF_vars(RefillTick)
  /\ \A m \in 1..(MaxBurst + MaxOutbound) :
       WF_vars(\E resp \in Responses, retryAfter \in RetryAfterHeaders :
                 OutboundProcess(m, resp, retryAfter))

SpecWorker == InitWorker /\ [][NextWorker]_vars /\ FairnessWorker

\* The outbound worker on a backlog, each attempt ending in a delivery or in
\* a failure (an upstream that is not rate limiting).
NextFaults ==
  \/ \E m \in outLive : OutboundVisibilityExpire(m)
  \/ OutboundRead
  \/ \E m \in dtasks, resp \in (Responses \ {"429"}) \cup Faults :
       OutboundProcess(m, resp, {})
  \/ RefillTick

\* Time passes (tokens are refilled, visibility windows run out), the loop
\* polls again, and a processMessage that has its token comes to an end.
FairnessFaults ==
  /\ WF_vars(RefillTick)
  /\ WF_vars(OutboundRead)
  /\ \A m \in 1..MaxFaultBurst :
       /\ WF_vars(OutboundVisibilityExpire(m))
       /\ WF_vars(\E resp \in (Responses \ {"429"}) \cup Faults :
                    OutboundProcess(m, resp, {}))

SpecFaults == InitFaults /\ [][NextFaults]_vars /\ FairnessFaults

\* The consumer and the dispatcher keep running (their loops poll again, time
\* passes, a transaction that is retried eventually commits) and the upstream
\* eventually answers 2xx.
Fairness ==
  /\ WF_vars(\E l \in Loops : PollRead(l))
  /\ \A m \in 1..MaxLiveSubmit :
       /\ WF_vars(IngestVisibilityExpire(m))
       /\ SF_vars(\E t \in tasks : t.msg = m /\ advisoryLockForOrder(t))
       /\ SF_vars(\E t \in tasks : t.msg = m /\ ProcessCommit(t))
       /\ WF_vars(\E t \in tasks : t.msg = m /\ Broadcast(t))
  /\ WF_vars(OutboundRead)
  /\ WF_vars(RefillTick)
  /\ \A m \in 1..(MaxLiveSubmit + MaxOutbound) :
       /\ WF_vars(OutboundVisibilityExpire(m))
       /\ SF_vars(OutboundProcess(m, "2xx", {}))

LiveSpec == Init /\ [][NextPipeline]_vars /\ Fairness

\* ----------------------------------------------------------------- claims
AllKeys == {DedupeKeyOf(r) : r \in Requests}
CallsWithKey(k, pcs) ==
  {c \in 1..Len(calls) : DedupeKeyOf(calls[c].req) = k /\ calls[c].pc \in pcs}
MessagesWithKey(k) == {m \in 1..Len(ingestLog) : ingestLog[m].dedupeKey = k}
RowsOfOrder(o) == {i \in 1..Len(inbox) : inbox[i].orderId = o}
ShipmentsOf(o) == {i \in 1..Len(shipments) : shipments[i].orderOrderId = o}
RECURSIVE MaxOf(_)
MaxOf(S) ==
  LET x == CHOOSE y \in S : TRUE
  IN IF S = {x} THEN x ELSE Max(x, MaxOf(S \ {x}))

\* Quiescence of the ingest side: no insertEvent is open, no processMessage is
\* running, and the only messages left on ingest_events are those of events
\* already found stale (their redelivery finds them stale again).
IngestQuiescent ==
  /\ \A c \in 1..Len(calls) : ~InFlight(c)
  /\ tasks = {}
  /\ \A m \in ingestLive :
       /\ findByDedupeKey(ingestLog[m].dedupeKey) # 0
       /\ inbox[findByDedupeKey(ingestLog[m].dedupeKey)].status = "IGNORED_STALE"

\* C1: the inbox never holds two rows with one dedupe_key, and among the
\* insertEvent calls of one dedupe_key that have returned, exactly one returned
\* inserted=true and every other returned inserted=false.
C1_OneRowPerDedupeKey ==
  \A k \in AllKeys :
    /\ Cardinality(RowsWithKey(k)) <= 1
    /\ Cardinality(CallsWithKey(k, {"inserted"})) = Cardinality(RowsWithKey(k))
    /\ CallsWithKey(k, {"inserted", "duplicate"}) # {}
         => Cardinality(CallsWithKey(k, {"inserted"})) = 1

\* Three calls carried one dedupe_key: one failed, one inserted, one was a duplicate.
C1_Witness ==
  \E k \in AllKeys :
    /\ CallsWithKey(k, {"threw"}) # {}
    /\ CallsWithKey(k, {"inserted"}) # {}
    /\ CallsWithKey(k, {"duplicate"}) # {}

\* C2: in every committed state the number of ingest_events messages ever
\* enqueued for a dedupe_key equals the number of inbox rows with that key,
\* and is 0 or 1, whatever insertEvent transactions failed midway.
C2_RowAndMessageAtomic ==
  \A k \in AllKeys :
    /\ Cardinality(MessagesWithKey(k)) = Cardinality(RowsWithKey(k))
    /\ Cardinality(RowsWithKey(k)) <= 1

\* One insertEvent failed inside its transaction and left nothing, while
\* another one committed its row and message.
C2_Witness ==
  /\ \E k \in AllKeys :
       /\ CallsWithKey(k, {"threw"}) # {}
       /\ RowsWithKey(k) = {}
       /\ MessagesWithKey(k) = {}
  /\ \E k \in AllKeys :
       /\ CallsWithKey(k, {"inserted"}) # {}
       /\ MessagesWithKey(k) # {}

\* C3: an Order's last_event_ts never decreases from one committed state to
\* the next (and an Order row never disappears).
C3_LastEventTsMonotonic ==
  [][\A o \in DOMAIN orders :
       /\ o \in DOMAIN orders'
       /\ orders'[o].lastEventTs >= orders[o].lastEventTs]_vars

\* An older event was consumed after a newer one had been applied.
C3_Witness ==
  \E i, j \in 1..Len(inbox) :
    /\ inbox[i].orderId = inbox[j].orderId
    /\ inbox[i].status = "PROCESSED"
    /\ inbox[j].status = "IGNORED_STALE"
    /\ inbox[j].eventTs >= Epoch
    /\ inbox[i].orderId \in DOMAIN orders
    /\ orders[inbox[i].orderId].lastEventTs = inbox[i].eventTs
    /\ inbox[j].eventTs < inbox[i].eventTs

\* C4: in every committed state each Order's last_event_ts is the maximum
\* event_ts among the PROCESSED inbox rows of that order.
C4_LastEventTsIsMaxProcessed ==
  \A o \in DOMAIN orders :
    LET done == {inbox[i].eventTs : i \in {j \in RowsOfOrder(o) : inbox[j].status = "PROCESSED"}}
    IN done # {} /\ orders[o].lastEventTs = MaxOf(done)

\* C5: the state transition of an accepted event is applied (Order updated,
\* outbound message enqueued) at most once, however often its message is delivered.
C5_AppliedAtMostOnce ==
  \A i \in 1..Len(inbox) : inbox[i].applied <= 1

\* C6: (a) every PROCESSED COURIER_STATUS_UPDATE row references an order that
\* has a Shipment, and (b) every Shipment references an existing Order.
C6_CourierProcessedHasShipment ==
  /\ \A i \in 1..Len(inbox) :
       (inbox[i].status = "PROCESSED" /\ inbox[i].eventType = "COURIER_STATUS_UPDATE")
         => ShipmentsOf(inbox[i].orderId) # {}
  /\ \A i \in 1..Len(shipments) : shipments[i].orderOrderId \in DOMAIN orders

\* C7: once the producers have stopped, both ingest_events and
\* shopify_outbound eventually become empty and stay empty.
C7_QueuesDrain == <>[](ingestLive = {} /\ outLive = {})

\* C8: once the producers have stopped and the consumer has drained
\* ingest_events, no inbox row remains RECEIVED.
C8_NoRowLeftReceived ==
  IngestQuiescent =>
    \A i \in 1..Len(inbox) :
      inbox[i].status \in {"PROCESSED", "IGNORED_STALE", "DUPLICATE_IGNORED"}

\* C9: for an order that received its base create and then a burst of
\* merchant and courier events (merchant webhooks may share a webhook id at
\* different timestamps), after quiescence last_event_ts is the maximum
\* event_ts over all submitted events.
C9_LastEventTsIsMaxSubmitted ==
  \A o \in Orders :
    (/\ IngestQuiescent
     /\ Len(calls) >= 2
     /\ calls[1].req.orderId = o
     /\ calls[1].req.eventType = "SHOPIFY_CREATED")
      => /\ o \in DOMAIN orders
         /\ orders[o].lastEventTs =
              MaxOf({calls[c].req.eventTs : c \in {d \in 1..Len(calls) : calls[d].req.orderId = o}})

\* C10: if a COURIER_STATUS_UPDATE with a tracking number was accepted for an
\* order, then after quiescence the order has a shipment.
C10_CourierEventGivesShipment ==
  \A i \in 1..Len(inbox) :
    (/\ IngestQuiescent
     /\ inbox[i].eventType = "COURIER_STATUS_UPDATE"
     /\ inbox[i].payload.trackingNumber)
      => ShipmentsOf(inbox[i].orderId) # {}

\* The values a row's body supplies for an address column (none, or one).
SuppliedAddress(row, c) ==
  (IF PayloadKey(c) \in DOMAIN row.payload.shipping_address
     THEN {row.payload.shipping_address[PayloadKey(c)]} ELSE {})
  \cup
  (IF PayloadKey(c) \in DOMAIN row.payload.address
     THEN {row.payload.address[PayloadKey(c)]} ELSE {})

\* The values last-writer-wins allows for a field: those supplied by the
\* events of the order with the largest event_ts among the rows in touching,
\* the default when no event touched the field.
LastWriterValues(touching, supplied(_), default) ==
  IF touching = {} THEN {default}
  ELSE UNION {supplied(i) : i \in {j \in touching :
                                    inbox[j].eventTs = MaxOf({inbox[k].eventTs : k \in touching})}}

\* C11: after quiescence each address column and shipping_fee_cents of an
\* Order holds the value supplied by the accepted event with the largest
\* event_ts that touched that field, or its default if none did; a merchant
\* webhook's shipping address ends up in the Order's address columns.
C11_LastWriterWinsPerField ==
  \A o \in DOMAIN orders :
    IngestQuiescent =>
      /\ \A c \in AddressColumns :
           LET touching == {i \in RowsOfOrder(o) :
                              /\ inbox[i].eventType \in {"SHOPIFY_CREATED", "SHOPIFY_UPDATED"}
                              /\ SuppliedAddress(inbox[i], c) # {}}
               supplied(i) == SuppliedAddress(inbox[i], c)
           IN orders[o].address[c] \in LastWriterValues(touching, supplied, Null)
      /\ LET touching == {i \in RowsOfOrder(o) : inbox[i].payload.shippingFeeCents # {}}
             supplied(i) == inbox[i].payload.shippingFeeCents
         IN orders[o].shippingFeeCents \in LastWriterValues(touching, supplied, 0)

\* C20: in every committed state no Order has a negative total_amount or a
\* negative shipping_fee_cents.
C20_NoNegativeAmounts ==
  \A o \in DOMAIN orders :
    orders[o].totalAmount >= 0 /\ orders[o].shippingFeeCents >= 0

\* The processMessage transactions that commit in this step: a locked task
\* ends and what it read (its message, the inbox row) shows the commit.
CommitsCreateForMissingOrder(t) ==
  /\ t \in tasks
  /\ t.pc = "locked"
  /\ t \notin tasks'
  /\ t.msg \in ingestLive
  /\ t.msg \notin ingestLive'
  /\ ingestLog[t.msg].eventType = "SHOPIFY_CREATED"
  /\ ingestLog[t.msg].orderId \notin DOMAIN orders

\* C12: when the consumer commits a SHOPIFY_CREATED event for an order_id
\* that has no Order row, the committed state holds an Order row for it that
\* is not PENDING_PARTIAL, with last_event_ts = event_ts, and the event's
\* inbox row is PROCESSED.
C12_CreateMakesOrder ==
  [][\A t \in tasks :
       CommitsCreateForMissingOrder(t) =>
         LET payload == ingestLog[t.msg] IN
           /\ payload.orderId \in DOMAIN orders'
           /\ orders'[payload.orderId].status # "PENDING_PARTIAL"
           /\ orders'[payload.orderId].lastEventTs = payload.eventTs
           /\ inbox'[findByDedupeKey(payload.dedupeKey)].status = "PROCESSED"]_vars

\* A processMessage transaction that finds its event older than the existing
\* Order's last_event_ts ends (commits or rolls back) in this step.
EndsStaleOnExistingOrder(t) ==
  /\ t \in tasks
  /\ t.pc = "locked"
  /\ t \notin tasks'
  /\ ingestLog[t.msg].orderId \in DOMAIN orders
  /\ ingestLog[t.msg].eventTs < orders[ingestLog[t.msg].orderId].lastEventTs

C14_DuplicateLeavesNoTrace ==
  [][(/\ Len(calls') > Len(calls)
      /\ RowsWithKey(DedupeKeyOf(calls'[Len(calls')].req)) # {})
       => /\ calls'[Len(calls')].pc = "duplicate"
          /\ ResponseOf(calls'[Len(calls')]) = [code |-> "2xx", status |-> "Duplicate ignored"]
          /\ inbox' = inbox
          /\ ingestLog' = ingestLog
          /\ ingestLive' = ingestLive
          /\ ingestVis' = ingestVis]_vars

\* A merchant webhook was answered as a duplicate of an earlier one with the
\* same webhook id and another timestamp; the stored row is still the earlier
\* one, with its single message.
C14_Witness ==
  \E c, d \in 1..Len(calls) :
    /\ d < c
    /\ calls[d].pc = "inserted"
    /\ calls[c].pc = "duplicate"
    /\ DedupeKeyOf(calls[c].req) = DedupeKeyOf(calls[d].req)
    /\ calls[c].req.eventTs # calls[d].req.eventTs
    /\ \A i \in RowsWithKey(DedupeKeyOf(calls[c].req)) :
         inbox[i].eventTs = calls[d].req.eventTs /\ inbox[i].status = "RECEIVED"
    /\ Cardinality(MessagesWithKey(DedupeKeyOf(calls[c].req))) = 1

\* C19: if the insertEvent transaction fails for a reason other than a
\* duplicate key, the endpoint answers 5xx, never an Accepted or
\* Duplicate-ignored success, and no inbox row or queue message of that call
\* is committed.
C19_FailureIsReportedAs5xx ==
  \A c \in 1..Len(calls) :
    calls[c].pc = "threw" =>
      /\ ResponseOf(calls[c]).code = "5xx"
      /\ Cardinality(RowsWithKey(DedupeKeyOf(calls[c].req)))
           = Cardinality(CallsWithKey(DedupeKeyOf(calls[c].req), {"inserted"}))
      /\ Cardinality(MessagesWithKey(DedupeKeyOf(calls[c].req)))
           = Cardinality(CallsWithKey(DedupeKeyOf(calls[c].req), {"inserted"}))

\* The dispatcher handles a 429 on message m in this step.
Handles429(m) ==
  /\ m \in dtasks
  /\ m \notin dtasks'
  /\ outLog'[m].lastStatus = "429"

\* C15: on a 429 the dispatcher enqueues the same payload with delay =
\* Retry-After seconds (1 if absent) and deletes the claimed message in one
\* transaction: the committed queue holds exactly one copy in place of the
\* claimed message, and the copy is not claimable while its delay runs.
C15_RequeueOnceWithDelay ==
  [][\A m \in dtasks :
       Handles429(m) =>
         LET id == Len(outLog') IN
           /\ Len(outLog') = Len(outLog) + 1
           /\ outLog'[id].payload = outLog[m].payload
           /\ outLog'[id].delay >= 0
           /\ outLive' = (outLive \ {m}) \cup {id}
           /\ m \notin outVis'
           /\ outLog'[id].delay > 0 => id \notin outVis'
           /\ Cardinality({k \in outLive' : outLog'[k].cause = outLog[m].cause})
                = Cardinality({k \in outLive : outLog[k].cause = outLog[m].cause})]_vars

\* A message was re-enqueued after a 429 with Retry-After: 2 and the copy is
\* on the queue, not claimable, while the claimed original is gone.
C15_Witness ==
  \E m, id \in 1..Len(outLog) :
    /\ outLog[m].lastStatus = "429"
    /\ m \notin outLive
    /\ id \in outLive \ outVis
    /\ outLog[id].delay = 2
    /\ outLog[id].payload = outLog[m].payload
    /\ outLog[id].lastStatus = ""

\* C16: a message whose latest upstream answer was neither 2xx nor 429 has
\* been deleted from shopify_outbound, so it is never dispatched again.
C16_FailedMessageIsDeleted ==
  \A m \in 1..Len(outLog) : outLog[m].lastStatus = "other" => m \notin outLive

\* The position at which the transaction that applied message m committed:
\* every applied event appends to shopify_outbound in its transaction.
CommitIndex(m) ==
  CHOOSE k \in 1..Len(outLog) :
    /\ outLog[k].cause = m
    /\ \A j \in 1..Len(outLog) : outLog[j].cause = m => k <= j

\* C17: the change notifications of two applied events of one order are
\* published in the order in which their transactions committed.
C17_PublishedInCommitOrder ==
  \A i, j \in 1..Len(published) :
    (i < j /\ published[i].orderId = published[j].orderId)
      => CommitIndex(published[i].msg) <= CommitIndex(published[j].msg)

\* C18: each subscriber has its own bounded buffer (256 events) whose oldest
\* undelivered event is dropped when it is full, so no subscriber is ever
\* more than the buffer's size behind, while broadcast is never held up.
C18_SubscriberBufferIsBounded ==
  \A s \in DOMAIN subscribers : Len(subscribers[s]) <= 256

\* C21: in every committed state each order has at most one Shipment row,
\* whatever COURIER_STATUS_UPDATE events were applied to it and however they
\* interleaved.
C21_OneShipmentPerOrder ==
  \A o \in Orders : Cardinality(ShipmentsOf(o)) <= 1

\* Two different courier events with a tracking number were applied to one
\* order, which has its single Shipment.
C21_Witness ==
  \E i, j \in 1..Len(inbox) :
    /\ i # j
    /\ inbox[i].orderId = inbox[j].orderId
    /\ inbox[i].eventType = "COURIER_STATUS_UPDATE" /\ inbox[i].payload.trackingNumber
    /\ inbox[j].eventType = "COURIER_STATUS_UPDATE" /\ inbox[j].payload.trackingNumber
    /\ inbox[i].status = "PROCESSED" /\ inbox[j].status = "PROCESSED"
    /\ Cardinality(ShipmentsOf(inbox[i].orderId)) = 1

\* C23: the transaction that finds an event stale deletes the event's
\* ingest_events message when it commits: no message whose inbox row is
\* IGNORED_STALE is left on the queue to be delivered again.
C23_StaleMessageIsConsumed ==
  \A m \in ingestLive :
    LET i == findByDedupeKey(ingestLog[m].dedupeKey) IN
      i # 0 => inbox[i].status # "IGNORED_STALE"

\* The processMessage t ends in this step (it is neither waiting, nor in its
\* transaction, nor about to publish afterwards).
Ended(t) ==
  /\ t \in tasks
  /\ \A u \in tasks' : ~(u.loop = t.loop /\ u.msg = t.msg)

\* The out-of-order check of processMessage t would find its event stale.
FindsStale(t) ==
  LET payload == ingestLog[t.msg] IN
    IF payload.orderId \in DOMAIN orders
      THEN IsStale(payload.eventTs, orders[payload.orderId])
      ELSE payload.eventType # "SHOPIFY_CREATED" /\ IsStale(payload.eventTs, PartialOrder)

\* C24: a processMessage whose transaction threw (it ended and its message,
\* not a stale one, is still on the queue) committed none of its effects: no
\* Order created or updated, no Shipment, no inbox status change, nothing on
\* shopify_outbound, no delete from ingest_events; it publishes no broadcast,
\* and the message stays claimed until its visibility window elapses.
C24_ThrowCommitsNothing ==
  [][\A t \in tasks :
       (Ended(t) /\ t.pc \in {"start", "locked"} /\ t.msg \in ingestLive' /\ ~FindsStale(t))
         => /\ orders' = orders
            /\ shipments' = shipments
            /\ inbox' = inbox
            /\ outLog' = outLog /\ outLive' = outLive /\ outVis' = outVis
            /\ ingestLive' = ingestLive /\ ingestVis' = ingestVis
            /\ published' = published]_vars

\* The transaction of a courier event for an order without a row threw: the
\* message is on the queue, claimed, nobody is processing it, its inbox row
\* is RECEIVED and no Order, Shipment or outbound message exists.
C24_Witness ==
  \E m \in ingestLive \ ingestVis :
    /\ tasks = {}
    /\ ingestLog[m].eventType = "COURIER_STATUS_UPDATE"
    /\ ingestLog[m].eventTs >= Epoch
    /\ inbox[findByDedupeKey(ingestLog[m].dedupeKey)].status = "RECEIVED"
    /\ ingestLog[m].orderId \notin DOMAIN orders
    /\ shipments = <<>> /\ outLog = <<>> /\ published = <<>>

\* The transaction of a non-create event for an order_id without an Order row
\* commits in this step: the row is there afterwards.
CommitsFirstNonCreate(t) ==
  /\ Ended(t) \/ [t EXCEPT !.pc = "committed"] \in tasks'
  /\ t.pc = "locked"
  /\ ingestLog[t.msg].eventType # "SHOPIFY_CREATED"
  /\ ingestLog[t.msg].orderId \notin DOMAIN orders
  /\ ingestLog[t.msg].orderId \in DOMAIN orders'

\* C25: an event other than SHOPIFY_CREATED consumed for an order_id with no
\* Order row creates the Order as PENDING_PARTIAL with zeroed amounts and
\* applies that same event in the same transaction: the committed Order
\* carries the event's timestamp and the event's inbox row is PROCESSED.
C25_PartialOrderAppliesEvent ==
  [][\A t \in tasks :
       CommitsFirstNonCreate(t) =>
         LET payload == ingestLog[t.msg]
             order == orders'[payload.orderId]
         IN /\ order.status = "PENDING_PARTIAL"
            /\ order.totalAmount = 0
            /\ payload.shippingFeeCents = {} => order.shippingFeeCents = 0
            /\ order.lastEventTs = payload.eventTs
            /\ inbox'[findByDedupeKey(payload.dedupeKey)].status = "PROCESSED"
            /\ t.msg \notin ingestLive']_vars

\* The processMessage transactions that hold the advisory lock of order o.
Holders(o) == {t \in tasks : t.pc = "locked" /\ ingestLog[t.msg].orderId = o}

\* C26: at any time at most one consumer transaction is between the
\* acquisition of the advisory lock and its commit or abort for one order_id,
\* and an Order row is created only by the transaction that holds the order's
\* lock; commit and abort release the lock; a transaction waits for the lock
\* only while a transaction of the same order_id holds it.
C26_OneTransactionPerOrder ==
  /\ [](\A o \in TwoOrders : Cardinality(Holders(o)) <= 1)
  /\ [](\A t \in tasks :
          (t.pc = "start" /\ Holders(ingestLog[t.msg].orderId) = {})
            => ENABLED advisoryLockForOrder(t))
  /\ [][\A o \in TwoOrders :
          /\ (o \notin DOMAIN orders /\ o \in DOMAIN orders')
               => \E t \in Holders(o) : Holders(o) = {t} /\ t \notin tasks'
          /\ \A t \in Holders(o) : t \notin tasks' => Holders(o)' = {}]_vars

\* Two first events of order o1 are being processed by the loops of two API
\* processes: one transaction holds the lock of o1 and the other waits for
\* it; the order has no row yet.
C26_Witness ==
  \E a, b \in tasks :
    /\ a.loop # b.loop
    /\ a.msg # b.msg
    /\ a.pc = "locked" /\ ingestLog[a.msg].orderId = "o1"
    /\ b.pc = "start" /\ ingestLog[b.msg].orderId = "o1"
    /\ ~ENABLED advisoryLockForOrder(b)
    /\ orders = <<>>

\* C27: every message on shopify_outbound was enqueued by the application of
\* a SHOPIFY_CREATED or SHOPIFY_UPDATED event; applying a
\* COURIER_STATUS_UPDATE enqueues none.
C27_OutboundOnlyForMerchantEvents ==
  \A k \in 1..Len(outLog) :
    ingestLog[outLog[k].cause].eventType \in {"SHOPIFY_CREATED", "SHOPIFY_UPDATED"}

\* The events published for ingest_events message m.
PublishedFor(m) == {i \in 1..Len(published) : published[i].msg = m}

\* C28: a change event is published only after the transaction that recorded
\* it has committed, and each processMessage publishes at most one: an event
\* is published by a processMessage whose transaction has committed, and the
\* events published for a message never outnumber the committed applications
\* of its event, so a rollback and a stale event publish nothing.
C28_PublishedOnlyAfterCommit ==
  /\ [](\A m \in 1..Len(ingestLog) :
          Cardinality(PublishedFor(m)) <= inbox[findByDedupeKey(ingestLog[m].dedupeKey)].applied)
  /\ [][published' # published =>
          \E t \in tasks :
            /\ t.pc = "committed"
            /\ Ended(t)
            /\ Len(published') = Len(published) + 1
            /\ published'[Len(published')].msg = t.msg
            /\ \E k \in 1..Len(outLog) : outLog[k].cause = t.msg]_vars

\* The transaction of an applied event has committed (row PROCESSED, message
\* deleted, outbound message enqueued) and its event is not published yet,
\* while an older event of the order was found stale and published nothing.
C28_Witness ==
  \E t \in tasks, j \in 1..Len(inbox) :
    /\ t.pc = "committed"
    /\ PublishedFor(t.msg) = {}
    /\ t.msg \notin ingestLive
    /\ inbox[findByDedupeKey(ingestLog[t.msg].dedupeKey)].status = "PROCESSED"
    /\ inbox[j].status = "IGNORED_STALE"
    /\ inbox[j].orderId = ingestLog[t.msg].orderId
    /\ published = <<>>

\* The outbound worker issues the upstream POST for message m in this step.
Posts(m) == m \in dtasks /\ m \notin dtasks'

\* C29: every upstream POST of the dispatcher is preceded by the consumption
\* of exactly one token of a bucket that never holds more than 2 tokens, so
\* the messages of one batch issue at most 2 POSTs until time passes; a
\* claimed message that finds no token waits for the refill and is then
\* dispatched (every claimed batch is eventually POSTed to the last message).
C29_OneTokenPerPost ==
  /\ [](tokens \in 0..BucketCapacity)
  /\ [][\A m \in dtasks : Posts(m) => (tokens >= 1 /\ tokens' = tokens - 1)]_vars
  /\ (dtasks # {}) ~> (dtasks = {})

\* Three messages were claimed in one batch: two have been POSTed and have
\* emptied the bucket, the third waits for a token.
C29_Witness ==
  /\ tokens = 0
  /\ Cardinality(dtasks) = 1
  /\ Len(outLog) = 3
  /\ \A m \in 1..Len(outLog) : (outLog[m].lastStatus # "") <=> (m \notin dtasks)
  /\ ~ENABLED (\E m \in dtasks, resp \in Responses, retryAfter \in RetryAfterHeaders :
                 OutboundProcess(m, resp, retryAfter))

\* C30: on a 2xx answer the dispatcher deletes the claimed message, and a
\* message leaves shopify_outbound only in the step that handles an upstream
\* answer to its POST: a 2xx, or a 429 whose transaction enqueues the copy.
C30_DeletedOnlyAfterResponse ==
  /\ [][\A m \in dtasks :
          (Posts(m) /\ outLog'[m].lastStatus = "2xx") => m \notin outLive']_vars
  /\ [][\A m \in outLive :
          m \notin outLive' =>
            /\ Posts(m)
            /\ outLog'[m].lastStatus \in {"2xx", "429"}
            /\ outLog'[m].lastStatus = "429" =>
                 /\ Len(outLog') = Len(outLog) + 1
                 /\ outLog'[Len(outLog')].payload = outLog[m].payload
                 /\ Len(outLog') \in outLive']_vars

\* Of a batch, one message was answered 2xx and is gone, one was answered
\* with another error and is still on the queue, and one has not been POSTed
\* and is still on the queue.
C30_Witness ==
  \E a, b, c \in 1..Len(outLog) :
    /\ outLog[a].lastStatus = "2xx" /\ a \notin outLive
    /\ outLog[b].lastStatus = "other" /\ b \in outLive
    /\ outLog[c].lastStatus = "" /\ c \in outLive /\ c \in dtasks

\* The message body is not an object, or has no orderId, or has no dedupeKey.
Malformed(payload) ==
  \/ "scalar" \in DOMAIN payload
  \/ "orderId" \notin DOMAIN payload
  \/ "dedupeKey" \notin DOMAIN payload

\* C31: a claimed ingest_events message that is not an object, or lacks
\* orderId, or lacks dedupeKey, never gets a transaction; the processMessage
\* that handles it changes no Order, Shipment or inbox row, enqueues and
\* publishes nothing, and deletes the message (unless the delete itself
\* throws); a deleted message never comes back.
C31_MalformedIsDropped ==
  /\ [][\A t \in tasks' : Malformed(ingestLog[t.msg]) => t.pc = "start"]_vars
  /\ [][\A t \in tasks :
          (Ended(t) /\ Malformed(ingestLog[t.msg]))
            => /\ orders' = orders /\ shipments' = shipments /\ inbox' = inbox
               /\ outLog' = outLog /\ outLive' = outLive /\ outVis' = outVis
               /\ published' = published
               /\ ingestLive' \in {ingestLive, ingestLive \ {t.msg}}]_vars
  /\ [][\A m \in 1..Len(ingestLog) : m \notin ingestLive => m \notin ingestLive']_vars

\* Every malformed message the run started with was deleted without a trace,
\* while a well-formed event was applied.
C31_Witness ==
  /\ \A m \in 1..Len(ingestLog) : Malformed(ingestLog[m]) => m \notin ingestLive
  /\ \E m \in 1..Len(ingestLog) : Malformed(ingestLog[m])
  /\ tasks = {}
  /\ Len(inbox) = 1
  /\ inbox[1].status = "PROCESSED"
  /\ Len(outLog) = 1

\* C32: the status of an inbox row leaves RECEIVED once, for PROCESSED or
\* IGNORED_STALE, and a row that has left RECEIVED is never written again by a
\* consumer step.
C32_TerminalRowIsFinal ==
  [][\A i \in 1..Len(inbox) :
       inbox[i].status # "RECEIVED" => inbox'[i] = inbox[i]]_vars

\* The polling loop l awaits the processMessage calls of a batch.
Busy(l) == \E t \in tasks : t.loop = l

\* C33: an error never halts the ingest consumer.  A processMessage that ends
\* (by a throw or otherwise) leaves the other processMessage of its batch
\* running; every batch settles, after which the loop reads again as soon as
\* a message is visible.
C33_FailureDoesNotHaltConsumer ==
  /\ [][\A t \in tasks : Ended(t) => \A u \in tasks \ {t} : u \in tasks']_vars
  /\ \A l \in Loops : Busy(l) ~> ~Busy(l)
  /\ \A l \in Loops :
       (~Busy(l) /\ ingestVis # {}) ~> (Busy(l) \/ ingestVis = {})

\* One message of a batch of two failed (it is still claimed, its row still
\* RECEIVED, nothing of it applied) while the other one was applied.
C33_Witness ==
  /\ tasks = {}
  /\ Len(inbox) = 2
  /\ \E i, j \in 1..2 :
       /\ inbox[i].status = "RECEIVED"
       /\ inbox[j].status = "PROCESSED"
  /\ Cardinality(ingestLive) = 1
  /\ ingestVis = {}
  /\ Len(outLog) = 1

\* C34: once the shutdown signal has arrived, the consumer loop and the
\* dispatcher loop claim no further message: every processMessage running
\* after the signal was already running when it arrived.
C34_NoClaimAfterShutdown ==
  [][stopping =>
       /\ \A t \in tasks' : \E u \in tasks : u.loop = t.loop /\ u.msg = t.msg
       /\ dtasks' \subseteq dtasks]_vars

\* The members of a JSON object, whatever their order at either depth.
MembersOf(obj) ==
  {[k |-> obj[i].k, v |-> obj[i].v, o |-> {obj[i].o[n] : n \in 1..Len(obj[i].o)}] :
     i \in 1..Len(obj)}

\* Two submissions of one event: same endpoint and topic, no webhook id, and
\* the same JSON body up to the order of the members.
SameSubmission(a, b) ==
  /\ a.source = b.source
  /\ a.topic = b.topic
  /\ a.webhookId = NoId
  /\ b.webhookId = NoId
  /\ MembersOf(a.body) = MembersOf(b.body)

\* The key of a request with a webhook id is source and webhook id.
KeyIsWebhookId ==
  \A i \in 1..Len(calls) :
    calls[i].webhookId # NoId
      => calls[i].dedupeKey = [path |-> "id", parts |-> <<calls[i].source, calls[i].webhookId>>]

Dated(body) ==
  \/ Get(body, "eventTs") # ""
  \/ Get(body, "updated_at") # ""
  \/ Get(body, "created_at") # ""

C36_QueueOrderIsCommitOrder ==
  [][\A k \in outLive' \ outLive :
       \A j \in outLive :
         outLog[j].payload.orderId = outLog[k].payload.orderId => j < k]_vars

\* Two messages of o1 were committed one after the other while a message of
\* o2 that was sent between them was not committed yet.
C36_Witness ==
  /\ Len(outLog) = 3
  /\ outLive = {1, 3}
  /\ outLog[1].payload.orderId = "o1"
  /\ outLog[2].payload.orderId = "o2"
  /\ outLog[3].payload.orderId = "o1"
  /\ \E t \in tasks : t.pc = "sent"

\* What the transaction of processMessage leaves of the Orders and Shipments
\* it finds (db) when it consumes payload and commits.
EffectOf(db, payload) ==
  LET orderId == payload.orderId
      found == orderId \in DOMAIN db.orders
      partial == ~found /\ payload.eventType # "SHOPIFY_CREATED"
      order == IF found THEN db.orders[orderId] ELSE PartialOrder
      with(row) == [o \in DOMAIN db.orders \cup {orderId} |->
                      IF o = orderId THEN row ELSE db.orders[o]]
  IN IF ~(found \/ partial) THEN db
     ELSE IF IsStale(payload.eventTs, order)
       THEN [orders |-> with(order), shipments |-> db.shipments]
       ELSE [orders |-> with(update(order, UpdatesOf(payload))),
             shipments |->
               IF payload.eventType = "COURIER_STATUS_UPDATE" /\ payload.trackingNumber
                 THEN upsertByOrderId(orderId, db.shipments)
                 ELSE db.shipments]

\* The Orders and Shipments after the messages ms were consumed one by one in
\* the order of their event_ts.
RECURSIVE InEventOrder(_, _)
InEventOrder(db, ms) ==
  IF ms = {} THEN db
  ELSE LET m == CHOOSE m \in ms : \A n \in ms : ingestLog[m].eventTs <= ingestLog[n].eventTs
       IN InEventOrder(EffectOf(db, ingestLog[m]), ms \ {m})

\* No request is under way, no processMessage is running, and every message
\* still on ingest_events was consumed before (and found stale).
Quiescent ==
  /\ \A c \in 1..Len(calls) : ~InFlight(c)
  /\ tasks = {}
  /\ \A m \in ingestLive :
       inbox[findByDedupeKey(ingestLog[m].dedupeKey)].status = "IGNORED_STALE"

\* C37: the events accepted for the order having pairwise distinct event_ts,
\* the Orders and Shipments found at quiescence are those of consuming the
\* events in the order of their event_ts, whatever order they arrived and
\* were consumed in.
C37_Converges ==
  (/\ Quiescent
   /\ \A m, n \in 1..Len(ingestLog) : m # n => ingestLog[m].eventTs # ingestLog[n].eventTs)
    => LET db == InEventOrder([orders |-> <<>>, shipments |-> <<>>], 1..Len(ingestLog))
       IN orders = db.orders /\ shipments = db.shipments

\* The processMessage of the outbound worker on message m ends in this step
\* because the upstream call threw, no base URL is configured, or the delete
\* after a 2xx answer failed.
FailsOn(m) ==
  /\ m \in dtasks
  /\ m \notin dtasks'
  /\ outLog'[m].lastStatus \in {"throw"} \cup Faults

\* The latest attempt on m failed in one of these ways and no attempt on it
\* is under way.
LeftClaimed(m) ==
  /\ m \in 1..Len(outLog)
  /\ outLog[m].lastStatus \in {"throw"} \cup Faults
  /\ m \in outLive
  /\ m \notin dtasks

\* C38: when the upstream call throws, the base URL is not configured or the
\* queue delete fails, the dispatcher leaves the claimed message on
\* shopify_outbound as it is (same payload, its visibility window untouched,
\* nothing enqueued in its place); once the window has run out the message is
\* claimed again.
C38_FailedAttemptKeepsMessage ==
  /\ [][\A m \in dtasks :
          FailsOn(m) => /\ m \in outLive'
                        /\ outVis' = outVis
                        /\ outLive' = outLive
                        /\ Len(outLog') = Len(outLog)
                        /\ outLog'[m].payload = outLog[m].payload]_vars
  /\ \A m \in 1..MaxFaultBurst : LeftClaimed(m) ~> (m \in dtasks)

\* A message whose delete failed after a 2xx answer is being attempted again
\* while another one, skipped for want of a base URL, is still on the queue.
C38_Witness ==
  /\ Len(outLog) = 2
  /\ outLog[1].lastStatus = "deletefails"
  /\ outLog[2].lastStatus = "nourl"
  /\ 1 \in dtasks
  /\ 2 \in outLive \ outVis

\* C39: the token count of the bucket is always between 0 and its capacity.
C39_TokensWithinCapacity ==
  /\ bucket.tokens >= 0
  /\ bucket.tokens <= BucketCapacity * Scale

====
